---- MODULE Spec2Model ----
(***************************************************************************)
(* Model of bound (src/main.rs): the directory walk (process_dir), the     *)
(* per-file step (process_file) with its reference expansion               *)
(* (parse_references_generic, canonicalize_path), the content shaping and  *)
(* the telemetry, as a stack machine over a small file system.             *)
(*                                                                         *)
(* Text is a sequence of characters (one-character strings).  A path is a  *)
(* sequence of components, a component a sequence of characters; an        *)
(* absolute path starts with the root component <<"/">>.  Option<T> is a   *)
(* sequence of length 0 (None) or 1 (Some).                                *)
(*                                                                         *)
(* Spec is one run of main; SpecTwice runs main a second time on the same  *)
(* arguments and tree; SpecShape applies the content shaping to every      *)
(* short text; SpecParse applies parse_references_generic to files that    *)
(* start with an include line.                                             *)
(***************************************************************************)
EXTENDS Naturals, Integers, Sequences, FiniteSets, TLC

\* ------------------------------------------------------------------ bounds

\* Largest -dl value the walk is started with.
MaxDepthLimit == 2
\* Call-stack frames available to the process before the recursion aborts it.
MaxStack == 8
\* Longest file text the shaping specification draws.
MaxLen == 5
\* Largest -tl / -sl value the shaping specification draws.
MaxLimit == 3
\* The longest included name of the parse specification.
MaxName == 3

\* ----------------------------------------------------------------- options

None == <<>>
Some(v) == <<v>>
IsSome(o) == Len(o) = 1
Unwrap(o) == o[1]

\* -------------------------------------------------------------- characters

\* An invalid byte of a file (not part of any UTF-8 sequence).
BadByte == "\\xFF"
\* U+FFFD, what lossy decoding puts in its place.
Replacement == "U+FFFD"
\* A two-byte character.
EAcute == "e'"

ByteLen(c) == IF c = EAcute THEN 2 ELSE IF c = Replacement THEN 3 ELSE 1

IsWs(c) == c \in {" ", "\n", "\t"}

\* [a-zA-Z0-9_\.]
IsNameChar(c) == c \in {"a", "b", "c", "d", "g", "h", "k", "m", "n", "p", "q",
                        "s", "u", "v", "x", "y", "z", "i", "o", "r", "t", "f",
                        "e", "l", "j", "w", "_", "."}

RECURSIVE ByteLength(_)
\* String::len / Vec<u8>::len: the length in bytes.
ByteLength(s) == IF s = <<>> THEN 0 ELSE ByteLen(Head(s)) + ByteLength(Tail(s))

\* ------------------------------------------------------------------- paths

Slash == <<"/">>
DotDot == <<".", ".">>
Dot == <<".">>

IsAbsolute(p) == Len(p) > 0 /\ p[1] = Slash

LastDot(name) ==
    LET idx == {i \in 1..Len(name) : name[i] = "."}
    IN  IF idx = {} THEN 0 ELSE CHOOSE i \in idx : \A j \in idx : j <= i

\* Path::extension: the part of the last component after its last '.', None
\* when there is no '.', when the name starts with its only '.', or for "..".
Extension(p) ==
    IF Len(p) = 0 \/ p[Len(p)] \in {Slash, DotDot, Dot} THEN None
    ELSE LET name == p[Len(p)]
             d == LastDot(name)
         IN  IF d <= 1 THEN None ELSE Some(SubSeq(name, d + 1, Len(name)))

\* Path::parent.
Parent(p) ==
    IF Len(p) = 0 \/ p = <<Slash>> THEN None ELSE Some(SubSeq(p, 1, Len(p) - 1))

RECURSIVE SplitOn(_, _, _)
\* The pieces of s between occurrences of sep (empty pieces kept); cur is the
\* piece being read.
SplitOn(s, sep, cur) ==
    IF s = <<>> THEN <<cur>>
    ELSE IF Head(s) = sep THEN <<cur>> \o SplitOn(Tail(s), sep, <<>>)
    ELSE SplitOn(Tail(s), sep, Append(cur, Head(s)))

\* Path::new(string).components(): a leading '/' is the root component,
\* empty pieces and interior "." are dropped.
ToPath(s) ==
    LET pieces == SplitOn(s, "/", <<>>)
        kept == SelectSeq(pieces, LAMBDA c : c # <<>> /\ c # Dot)
        lead == IF Len(pieces) > 0 /\ pieces[1] = Dot THEN <<Dot>> ELSE <<>>
    IN  IF Len(s) > 0 /\ s[1] = "/" THEN <<Slash>> \o kept ELSE lead \o kept

\* Path::join: an absolute right-hand side replaces the left-hand side.
Join(base, p) == IF IsAbsolute(p) THEN p ELSE base \o p

IsPrefix(pre, p) == Len(pre) <= Len(p) /\ SubSeq(p, 1, Len(pre)) = pre

\* Path::strip_prefix.
StripPrefix(p, pre) ==
    IF IsPrefix(pre, p) THEN Some(SubSeq(p, Len(pre) + 1, Len(p))) ELSE None

\* ------------------------------------------------------------- file system

W == <<"w">>
P == <<"p">>
S == <<"s">>
\* The process's working directory, and the root directory's canonical path.
Cwd == <<Slash, W>>
CanonRoot == <<Slash, W, P>>

py == <<"p", "y">>
js == <<"j", "s">>
cExt == <<"c">>

a_py == <<"a", ".", "p", "y">>
b_py == <<"b", ".", "p", "y">>
c_py == <<"c", ".", "p", "y">>
e_py == <<"e", ".", "p", "y">>
g_py == <<"g", ".", "p", "y">>
k_c == <<"k", ".", "c">>
d_c == <<"d", ".", "c">>
n_h == <<"n", ".", "h">>
m_noext == <<"m">>

KwImport == <<"i", "m", "p", "o", "r", "t">>
KwFrom == <<"f", "r", "o", "m">>
KwRequire == <<"r", "e", "q", "u", "i", "r", "e", "(">>
KwInclude == <<"#", "i", "n", "c", "l", "u", "d", "e">>

File(b) == [kind |-> "file", entries |-> <<>>, bytes |-> b]
Dir(e) == [kind |-> "dir", entries |-> e, bytes |-> <<>>]

Ancestors == (<<Slash>> :> Dir(<<W>>)) @@ (Cwd :> Dir(<<P>>))

\* p/a.py: "import b\nimport q from 's.c'"; p/b.py: "e' z";
\* p/s/c.py: "import e\nz"; p/s/e.py: "x y".
ChainTree(rootEntries) ==
    Ancestors
    @@ (CanonRoot :> Dir(rootEntries))
    @@ (CanonRoot \o <<a_py>> :>
          File(KwImport \o <<" ", "b", "\n">> \o KwImport \o <<" ", "q", " ">>
               \o KwFrom \o <<" ", "'", "s", ".", "c", "'">>))
    @@ (CanonRoot \o <<b_py>> :> File(<<EAcute, " ", "z">>))
    @@ (CanonRoot \o <<S>> :> Dir(<<c_py, e_py>>))
    @@ (CanonRoot \o <<S, c_py>> :> File(KwImport \o <<" ", "e", "\n", "z">>))
    @@ (CanonRoot \o <<S, e_py>> :> File(<<"x", " ", "y">>))

\* p/a.py: "import b"; p/b.py: "from a import u".
CycleTree ==
    Ancestors
    @@ (CanonRoot :> Dir(<<a_py, b_py>>))
    @@ (CanonRoot \o <<a_py>> :> File(KwImport \o <<" ", "b">>))
    @@ (CanonRoot \o <<b_py>> :>
          File(KwFrom \o <<" ", "a", " ">> \o KwImport \o <<" ", "u">>))

\* p/b.py: "z"; p/a.py: "import a\nimport b".
SelfTree ==
    Ancestors
    @@ (CanonRoot :> Dir(<<b_py, a_py>>))
    @@ (CanonRoot \o <<b_py>> :> File(<<"z">>))
    @@ (CanonRoot \o <<a_py>> :>
          File(KwImport \o <<" ", "a", "\n">> \o KwImport \o <<" ", "b">>))

\* p/k.c: "#include \"n.h\"\nrequire('s/d.c')"; p/n.h: "h"; p/m: "m m";
\* p/s/d.c: "#include \"../n.h\"\nv".
IncludeTree ==
    Ancestors
    @@ (CanonRoot :> Dir(<<k_c, n_h, m_noext, S>>))
    @@ (CanonRoot \o <<k_c>> :>
          File(KwInclude \o <<" ", "\"", "n", ".", "h", "\"", "\n">>
               \o KwRequire \o <<"'", "s", "/", "d", ".", "c", "'", ")">>))
    @@ (CanonRoot \o <<n_h>> :> File(<<"h">>))
    @@ (CanonRoot \o <<m_noext>> :> File(<<"m", " ", "m">>))
    @@ (CanonRoot \o <<S>> :> Dir(<<d_c>>))
    @@ (CanonRoot \o <<S, d_c>> :>
          File(KwInclude \o <<" ", "\"", ".", ".", "/", "n", ".", "h", "\"", "\n", "v">>))

\* p/g.py: an invalid byte, then " a"; p/a.py: "import g".
LossyTree ==
    Ancestors
    @@ (CanonRoot :> Dir(<<g_py, a_py>>))
    @@ (CanonRoot \o <<g_py>> :> File(<<BadByte, " ", "a">>))
    @@ (CanonRoot \o <<a_py>> :> File(KwImport \o <<" ", "g">>))

TreeNames == {"chain", "chainrev", "cycle", "self", "include", "lossy"}

TreeOf(name) ==
    CASE name = "chain" -> ChainTree(<<a_py, b_py, S>>)
      [] name = "chainrev" -> ChainTree(<<S, b_py, a_py>>)
      [] name = "cycle" -> CycleTree
      [] name = "self" -> SelfTree
      [] name = "include" -> IncludeTree
      [] name = "lossy" -> LossyTree

\* The regular files of a tree, by canonical path.
FilesOf(name) == {q \in DOMAIN TreeOf(name) : TreeOf(name)[q].kind = "file"}

RECURSIVE ResolveFrom(_, _, _)
\* The canonical path reached from the canonical directory cur by the
\* components rest, or None when a component does not exist.
ResolveFrom(nodes, cur, rest) ==
    IF rest = <<>> THEN Some(cur)
    ELSE IF cur \notin DOMAIN nodes \/ nodes[cur].kind # "dir" THEN None
    ELSE LET c == Head(rest)
         IN  IF c = Dot THEN ResolveFrom(nodes, cur, Tail(rest))
             ELSE IF c = DotDot
                  THEN ResolveFrom(nodes,
                                   IF Len(cur) = 1 THEN cur ELSE SubSeq(cur, 1, Len(cur) - 1),
                                   Tail(rest))
             ELSE IF Append(cur, c) \in DOMAIN nodes
                  THEN ResolveFrom(nodes, Append(cur, c), Tail(rest))
             ELSE None

\* fs::canonicalize: None stands for its error.
Canonicalize(nodes, p) ==
    IF IsAbsolute(p) THEN ResolveFrom(nodes, <<Slash>>, Tail(p))
    ELSE ResolveFrom(nodes, Cwd, p)

\* Path::exists, Path::is_dir, Path::is_file.
Exists(nodes, p) == IsSome(Canonicalize(nodes, p))
IsDir(nodes, p) == Exists(nodes, p) /\ nodes[Unwrap(Canonicalize(nodes, p))].kind = "dir"
IsFile(nodes, p) == Exists(nodes, p) /\ nodes[Unwrap(Canonicalize(nodes, p))].kind = "file"

\* Canonicalize a path, staying inside root_dir.
canonicalize_path(nodes, p, root_dir) ==
    LET q == IF Exists(nodes, p)
             THEN (IF IsSome(Canonicalize(nodes, p)) THEN Unwrap(Canonicalize(nodes, p)) ELSE p)
             ELSE p
        rel == StripPrefix(q, root_dir)
    IN  IF IsSome(rel) THEN Join(root_dir, Unwrap(rel)) ELSE q

\* ----------------------------------------------------- reference extraction

RECURSIVE SkipWs(_, _)
\* \s* from position i: the first position at or after i that holds no
\* whitespace (Len + 1 when there is none).
SkipWs(line, i) ==
    IF i <= Len(line) /\ IsWs(line[i]) THEN SkipWs(line, i + 1) ELSE i

RECURSIVE NameEnd(_, _)
\* [a-zA-Z0-9_\.]* from position i, greedy: the first position not in the class.
NameEnd(line, i) ==
    IF i <= Len(line) /\ IsNameChar(line[i]) THEN NameEnd(line, i + 1) ELSE i

HasLit(line, i, lit) ==
    i >= 1 /\ i + Len(lit) - 1 <= Len(line) /\ SubSeq(line, i, i + Len(lit) - 1) = lit

IsQuote(c) == c \in {"'", "\""}

\* The leftmost of the positions hits, or 0 when there is none.
FirstPos(hits) ==
    IF hits = {} THEN 0 ELSE CHOOSE e \in hits : \A x \in hits : e <= x

\* (?m)^\s*import\s+([a-zA-Z0-9_\.]+)
MatchImport(line) ==
    LET i == SkipWs(line, 1)
        j == i + Len(KwImport)
        k == SkipWs(line, j)
        e == NameEnd(line, k)
    IN  IF HasLit(line, i, KwImport) /\ k > j /\ e > k
        THEN <<SubSeq(line, k, e - 1)>> ELSE <<>>

\* (?m)^\s*from\s+([a-zA-Z0-9_\.]+)\s+import
MatchFromImport(line) ==
    LET i == SkipWs(line, 1)
        j == i + Len(KwFrom)
        k == SkipWs(line, j)
        e == NameEnd(line, k)
        f == SkipWs(line, e)
    IN  IF HasLit(line, i, KwFrom) /\ k > j /\ e > k /\ f > e /\ HasLit(line, f, KwImport)
        THEN <<SubSeq(line, k, e - 1)>> ELSE <<>>

\* One match of require\(['"](.+?)['"]\) starting at s: the position of the
\* closing quote (the nearest one followed by ')'), or 0.
RequireClose(line, s) ==
    IF HasLit(line, s, KwRequire) /\ s + Len(KwRequire) <= Len(line)
       /\ IsQuote(line[s + Len(KwRequire)])
    THEN FirstPos({e \in (s + Len(KwRequire) + 2)..Len(line) :
                     IsQuote(line[e]) /\ e + 1 <= Len(line) /\ line[e + 1] = ")"})
    ELSE 0

RECURSIVE MatchRequireFrom(_, _)
\* captures_iter of require\(['"](.+?)['"]\): the leftmost match at or after
\* from, then the matches after its end.
MatchRequireFrom(line, from) ==
    LET s == FirstPos({x \in from..Len(line) : RequireClose(line, x) # 0})
    IN  IF s = 0 THEN <<>>
        ELSE LET e == RequireClose(line, s)
             IN  <<SubSeq(line, s + Len(KwRequire) + 1, e - 1)>>
                 \o MatchRequireFrom(line, e + 2)

MatchRequire(line) == MatchRequireFrom(line, 1)

\* (?m)^\s*import\s+.*\s+from\s+['"](.+?)['"]: .* is greedy, so the last
\* "from" that is followed by a quoted name decides; the name ends at the
\* nearest quote.
MatchImportFrom(line) ==
    LET i == SkipWs(line, 1)
        j == i + Len(KwImport)
        Open(f) == SkipWs(line, f + Len(KwFrom))
        Feasible(f) ==
            /\ HasLit(line, f, KwFrom)
            /\ f - 1 >= j + 1 /\ IsWs(line[f - 1])
            /\ Open(f) > f + Len(KwFrom)
            /\ Open(f) <= Len(line) /\ IsQuote(line[Open(f)])
            /\ FirstPos({e \in (Open(f) + 2)..Len(line) : IsQuote(line[e])}) # 0
        fs == {f \in 1..Len(line) : Feasible(f)}
    IN  IF HasLit(line, i, KwImport) /\ j <= Len(line) /\ IsWs(line[j]) /\ fs # {}
        THEN LET f == CHOOSE x \in fs : \A y \in fs : y <= x
                 e == FirstPos({x \in (Open(f) + 2)..Len(line) : IsQuote(line[x])})
             IN  <<SubSeq(line, Open(f) + 1, e - 1)>>
        ELSE <<>>

\* The delimiters the include pattern accepts, on both sides: ["<]
IsIncludeDelim(c) == c \in {"\"", "<"}

\* (?m)^\s*#include\s*["<](.+?)["<]
MatchInclude(line) ==
    LET i == SkipWs(line, 1)
        g == SkipWs(line, i + Len(KwInclude))
        e == FirstPos({x \in (g + 2)..Len(line) : IsIncludeDelim(line[x])})
    IN  IF HasLit(line, i, KwInclude) /\ g <= Len(line) /\ IsIncludeDelim(line[g]) /\ e # 0
        THEN <<SubSeq(line, g + 1, e - 1)>> ELSE <<>>

\* The captures of one line, pattern by pattern in the order of `patterns`.
LineCaptures(line) ==
    MatchImport(line) \o MatchFromImport(line) \o MatchRequire(line)
    \o MatchImportFrom(line) \o MatchInclude(line)

\* r.replace('.', "/")
ReplaceDots(r) == [i \in 1..Len(r) |-> IF r[i] = "." THEN "/" ELSE r[i]]

Contains(r, c) == \E i \in 1..Len(r) : r[i] = c

\* The post-processing of one captured name in a file at path.
PostProcess(r, path) ==
    LET ext == Extension(path)
        r1 == IF IsSome(ext) /\ Unwrap(ext) \in {py, js} THEN ReplaceDots(r) ELSE r
    IN  IF ~Contains(r1, ".") /\ IsSome(ext) THEN r1 \o <<".">> \o Unwrap(ext) ELSE r1

\* BufRead::lines: the text split at '\n'; what follows a final '\n' is no line.
Lines(text) ==
    LET pieces == SplitOn(text, "\n", <<>>)
    IN  IF pieces[Len(pieces)] = <<>> THEN SubSeq(pieces, 1, Len(pieces) - 1) ELSE pieces

RECURSIVE RefsOfLines(_, _)
RefsOfLines(lines, path) ==
    IF lines = <<>> THEN <<>>
    ELSE LET caps == LineCaptures(Head(lines))
         IN  [i \in 1..Len(caps) |-> PostProcess(caps[i], path)]
             \o RefsOfLines(Tail(lines), path)

\* Parse references in code, given the bytes of the opened file: a line that
\* is not valid UTF-8 is an error (line?), which discards the references.
parse_references_generic(path, bytes) ==
    IF Contains(bytes, BadByte) THEN [ok |-> FALSE, refs |-> <<>>]
    ELSE [ok |-> TRUE, refs |-> RefsOfLines(Lines(bytes), path)]

\* ----------------------------------------------------------------- shaping

\* String::from_utf8_lossy: an invalid byte becomes U+FFFD.
Decode(bytes) == [i \in 1..Len(bytes) |-> IF bytes[i] = BadByte THEN Replacement ELSE bytes[i]]

RECURSIVE WordsFrom(_, _)
\* str::split_whitespace: the maximal runs of non-whitespace; cur is the run
\* being read.
WordsFrom(text, cur) ==
    IF text = <<>> THEN (IF cur = <<>> THEN <<>> ELSE <<cur>>)
    ELSE IF IsWs(Head(text))
         THEN (IF cur = <<>> THEN <<>> ELSE <<cur>>) \o WordsFrom(Tail(text), <<>>)
         ELSE WordsFrom(Tail(text), Append(cur, Head(text)))

split_whitespace(text) == WordsFrom(text, <<>>)

\* Vec::truncate.
TruncateVec(v, n) == IF Len(v) > n THEN SubSeq(v, 1, n) ELSE v

RECURSIVE JoinSpace(_)
\* words.join(" ")
JoinSpace(words) ==
    IF words = <<>> THEN <<>>
    ELSE IF Len(words) = 1 THEN words[1]
    ELSE words[1] \o <<" ">> \o JoinSpace(Tail(words))

\* Token limit handling: the text kept.
TokenShape(contents, token_limit) ==
    IF IsSome(token_limit)
    THEN JoinSpace(TruncateVec(split_whitespace(contents), Unwrap(token_limit)))
    ELSE contents

\* A faulty variant of TokenCount: the words are counted after the truncate.
TokenCountAfterTruncate(contents, token_limit) ==
    IF IsSome(token_limit)
    THEN Len(TruncateVec(split_whitespace(contents), Unwrap(token_limit)))
    ELSE Len(split_whitespace(contents))

\* What telemetry.tokens_aggregated grows by: words.len() before the truncate,
\* or the count of the untouched text.
TokenCount(contents, token_limit) == Len(split_whitespace(contents))

\* str::is_char_boundary: n bytes end exactly after some character.
IsCharBoundary(text, n) == \E k \in 0..Len(text) : ByteLength(SubSeq(text, 1, k)) = n

\* String::truncate(n) for n <= len on a character boundary.
TruncateString(text, n) ==
    LET k == CHOOSE x \in 0..Len(text) : ByteLength(SubSeq(text, 1, x)) = n
    IN  SubSeq(text, 1, k)

\* Size limit: String::truncate panics off a character boundary.
SizeShapePanics(text, size_limit) ==
    /\ IsSome(size_limit)
    /\ ByteLength(text) > Unwrap(size_limit)
    /\ ~IsCharBoundary(text, Unwrap(size_limit))

SizeShape(text, size_limit) ==
    IF IsSome(size_limit) /\ ByteLength(text) > Unwrap(size_limit)
    THEN TruncateString(text, Unwrap(size_limit))
    ELSE text

\* A faulty variant of Shape: the size limit is applied before the token limit.
ShapeSizeFirst(contents, token_limit, size_limit) ==
    IF SizeShapePanics(contents, size_limit)
    THEN [panics |-> TRUE, text |-> <<>>, tokens |-> TokenCount(contents, token_limit)]
    ELSE [panics |-> FALSE,
          text |-> TokenShape(SizeShape(contents, size_limit), token_limit),
          tokens |-> TokenCount(contents, token_limit)]

\* The shaping of process_file: [panics, text, tokens].
Shape(contents, token_limit, size_limit) ==
    LET t == TokenShape(contents, token_limit)
    IN  IF SizeShapePanics(t, size_limit)
        THEN [panics |-> TRUE, text |-> <<>>, tokens |-> TokenCount(contents, token_limit)]
        ELSE [panics |-> FALSE, text |-> SizeShape(t, size_limit),
              tokens |-> TokenCount(contents, token_limit)]

\* ------------------------------------------------------------------- state

VARIABLES
    tree,            \* the file system of the run (a name of TreeNames)
    fault,           \* the I/O failure of the run: None, or Some([kind, at, late])
    lang_filter,     \* Option<(extension, dependency-aware)>
    token_limit,     \* Option<usize>, -tl
    size_limit,      \* Option<usize>, -sl
    depth_limit,     \* Option<usize>, -dl
    target_dir,      \* the root directory as given on the command line
    status,          \* start | running | unwinding | done | failed | panic | overflow
    stack,           \* the call stack of process_dir / process_file, top last
    aggregated,      \* the aggregate, as the sequence of its appended [path, text]
    visited_files,   \* HashSet<PathBuf>
    telemetry,       \* [files_processed, bytes_read, tokens_aggregated]
    total_files,     \* what count_files returned
    reported,        \* files_processed at each progress line printed
    written,         \* Option of what main wrote to its sink
    sh,              \* the shaping specification's input and result
    pr,              \* the parse specification's input and result
    first_run        \* Option of the outcome of the run before this one

vars == <<tree, fault, lang_filter, token_limit, size_limit, depth_limit, target_dir,
          status, stack, aggregated, visited_files, telemetry, total_files, reported,
          written, sh, pr, first_run>>

config == <<tree, fault, lang_filter, token_limit, size_limit, depth_limit, target_dir>>

Nodes == TreeOf(tree)

\* Progress update every 10 files.
ReportEvery == 10

Canon(p) == Unwrap(Canonicalize(Nodes, p))

\* fs::read_dir(path) fails.
ReadDirFails(nodes, flt, p) ==
    IsSome(flt) /\ Unwrap(flt).kind = "open" /\ Canonicalize(nodes, p) = Some(Unwrap(flt).at)

\* Reading the directory entry of p fails (entry?).
EntryFails(nodes, flt, p) ==
    IsSome(flt) /\ Unwrap(flt).kind = "entry" /\ Canonicalize(nodes, p) = Some(Unwrap(flt).at)

\* File::open(path) or read_to_end fails.
OpenFails(nodes, flt, p) ==
    \/ ~IsFile(nodes, p)
    \/ IsSome(flt) /\ Unwrap(flt).kind = "open" /\ Canonicalize(nodes, p) = Some(Unwrap(flt).at)

\* path.extension().and_then(|e| e.to_str()).map(|e| e == ext).unwrap_or(dflt)
ExtensionIs(p, ext, dflt) ==
    IF IsSome(Extension(p)) THEN Unwrap(Extension(p)) = ext ELSE dflt

\* A faulty variant of IncludeFile: a file without extension passes the filter, as in
\* count_files (unwrap_or(true)).
IncludeFileDefaultTrue(p, lf) ==
    IF IsSome(lf) THEN ExtensionIs(p, Unwrap(lf).ext, TRUE) ELSE TRUE

\* include_file of process_file.
IncludeFile(p, lf) == IF IsSome(lf) THEN ExtensionIs(p, Unwrap(lf).ext, FALSE) ELSE TRUE

\* A faulty variant of ExpandsReferences: the test on include_file is left out.
ExpandsUnqualified(p, lf) == IsSome(lf) /\ Unwrap(lf).dep

\* A faulty variant of ExpandsReferences: the test on include_file is inverted.
ExpandsWhenExcluded(p, lf) == IsSome(lf) /\ Unwrap(lf).dep /\ ~IncludeFile(p, lf)

\* Whether process_file expands the references of p.
ExpandsReferences(p, lf) == IsSome(lf) /\ Unwrap(lf).dep /\ IncludeFile(p, lf)

\* --------------------------------------------------------------- count_files

RECURSIVE CountInner(_, _, _, _, _, _)
RECURSIVE CountEntries(_, _, _, _, _, _)

\* inner of count_files: [ok, count].
CountInner(nodes, flt, lf, dl, p, current_depth) ==
    IF IsSome(dl) /\ current_depth > Unwrap(dl) THEN [ok |-> TRUE, count |-> 0]
    ELSE IF IsDir(nodes, p)
    THEN IF ReadDirFails(nodes, flt, p) THEN [ok |-> FALSE, count |-> 0]
         ELSE CountEntries(nodes, flt, lf, dl,
                           [i \in 1..Len(nodes[Unwrap(Canonicalize(nodes, p))].entries) |->
                              Join(p, <<nodes[Unwrap(Canonicalize(nodes, p))].entries[i]>>)],
                           current_depth)
    ELSE IF IsFile(nodes, p)
    THEN IF IsSome(lf)
         THEN [ok |-> TRUE, count |-> IF ExtensionIs(p, Unwrap(lf).ext, TRUE) THEN 1 ELSE 0]
         ELSE [ok |-> TRUE, count |-> 1]
    ELSE [ok |-> TRUE, count |-> 0]

\* The loop over the entries of a directory at current_depth.
CountEntries(nodes, flt, lf, dl, entries, current_depth) ==
    IF entries = <<>> THEN [ok |-> TRUE, count |-> 0]
    ELSE IF EntryFails(nodes, flt, Head(entries)) THEN [ok |-> FALSE, count |-> 0]
    ELSE LET first == CountInner(nodes, flt, lf, dl, Head(entries), current_depth + 1)
         IN  IF ~first.ok THEN first
             ELSE LET rest == CountEntries(nodes, flt, lf, dl, Tail(entries), current_depth)
                  IN  [ok |-> rest.ok, count |-> first.count + rest.count]

\* Count total files for EBT estimation.
count_files(nodes, flt, p, lf, dl) == CountInner(nodes, flt, lf, dl, p, 0)

\* --------------------------------------------------------------- the machine

DirFrame(p, d) ==
    [fn |-> "process_dir", path |-> p, current_depth |-> d, pc |-> "enter",
     items |-> <<>>, i |-> 1]

FileFrame(p) ==
    [fn |-> "process_file", path |-> p, current_depth |-> 0, pc |-> "enter",
     items |-> <<>>, i |-> 1]

Top == stack[Len(stack)]
Below == SubSeq(stack, 1, Len(stack) - 1)

\* The frame on top replaced by f, then a call of callee: the recursion has
\* no guard of its own, so a call beyond the stack aborts the process.
Call(f, callee) ==
    IF Len(stack) >= MaxStack
    THEN /\ status' = "overflow"
         /\ stack' = stack
    ELSE /\ status' = status
         /\ stack' = Below \o <<f, callee>>

\* A faulty variant of Fail: the failing entry is skipped and the walk goes on.
SkipAndContinue ==
    /\ status' = status
    /\ stack' = Below

\* An Err returned by the frame on top: every caller returns it at once (?).
Fail ==
    /\ status' = "unwinding"
    /\ stack' = stack

FilterChoices ==
    {None} \cup {Some([ext |-> e, dep |-> d]) : e \in {py, cExt}, d \in BOOLEAN}

DepthChoices == {None} \cup {Some(n) : n \in 0..MaxDepthLimit}

\* The -tl and -sl values the walk is run with.
WalkTokenLimits == {None, Some(1)}
WalkSizeLimits == {None, Some(1)}

\* The failure is on one node of the tree: its open (read_dir of a directory)
\* or the read of its directory entry fails, from the start of the run or,
\* when late, only once the pre-scan is over (the tree changed under the run).
FaultChoices(t) ==
    {None} \cup {Some([kind |-> k, at |-> q, late |-> l]) :
                   k \in {"open", "entry"}, q \in DOMAIN TreeOf(t) \ DOMAIN Ancestors,
                   l \in BOOLEAN}

\* The failure as the pre-scan meets it.
FaultAtPreScan(flt) == IF IsSome(flt) /\ Unwrap(flt).late THEN None ELSE flt

\* The root directory as given: absolute and canonical, or relative to Cwd.
TargetChoices == {CanonRoot, <<P>>}

NoShape == [phase |-> "off"]
NoParse == [phase |-> "off"]

\* A faulty variant of NewVisitedFiles: the set of a run that has ended is kept.
KeptVisitedFiles == IF status \in {"done", "failed", "panic", "overflow"} THEN visited_files ELSE {}

\* String::new(), HashSet::new() and Telemetry::new() of main.
NewAggregated == <<>>
NewVisitedFiles == {}
NewTelemetry == [files_processed |-> 0, bytes_read |-> 0, tokens_aggregated |-> 0]

Init ==
    /\ tree \in TreeNames
    /\ fault \in FaultChoices(tree)
    /\ lang_filter \in FilterChoices
    /\ token_limit \in WalkTokenLimits
    /\ size_limit \in WalkSizeLimits
    /\ depth_limit \in DepthChoices
    /\ target_dir \in TargetChoices
    /\ status = "start"
    /\ first_run = None
    /\ stack = <<>>
    /\ aggregated = NewAggregated
    /\ visited_files = NewVisitedFiles
    /\ telemetry = NewTelemetry
    /\ total_files = 0
    /\ reported = <<>>
    /\ written = None
    /\ sh = NoShape
    /\ pr = NoParse

\* main, up to the call of process_dir: the pre-scan, whose error ends the run.
MainStart ==
    /\ status = "start"
    /\ LET n == count_files(Nodes, FaultAtPreScan(fault), target_dir, lang_filter,
                            depth_limit)
       IN  IF n.ok
           THEN /\ total_files' = n.count
                /\ stack' = <<DirFrame(target_dir, 0)>>
                /\ status' = "running"
           ELSE /\ status' = "failed"
                /\ UNCHANGED <<total_files, stack>>
    /\ UNCHANGED <<config, aggregated, visited_files, telemetry, reported, written, sh,
                   pr, first_run>>

\* A faulty variant of BeyondDepth: the walk already stops at the limit.
AtOrBeyondDepth(current_depth, dl) == IsSome(dl) /\ current_depth >= Unwrap(dl)

\* if let Some(dl) = depth_limit { if current_depth > dl { return Ok(()); } }
BeyondDepth(current_depth, dl) == IsSome(dl) /\ current_depth > Unwrap(dl)

\* process_dir up to its loop: the depth check, then read_dir of a directory
\* or the call of process_file on a file.
ProcessDirEnter ==
    /\ status = "running" /\ stack # <<>>
    /\ Top.fn = "process_dir" /\ Top.pc = "enter"
    /\ IF BeyondDepth(Top.current_depth, depth_limit)
       THEN stack' = Below /\ status' = status
       ELSE IF IsDir(Nodes, Top.path)
       THEN IF ReadDirFails(Nodes, fault, Top.path)
            THEN Fail
            ELSE /\ stack' = Below \o
                      <<[Top EXCEPT !.pc = "loop",
                                    !.items = [k \in 1..Len(Nodes[Canon(Top.path)].entries) |->
                                                 Join(Top.path, <<Nodes[Canon(Top.path)].entries[k]>>)]]>>
                 /\ status' = status
       ELSE IF IsFile(Nodes, Top.path)
       THEN Call([Top EXCEPT !.pc = "tail"], FileFrame(Top.path))
       ELSE stack' = Below /\ status' = status
    /\ UNCHANGED <<config, aggregated, visited_files, telemetry, total_files, reported,
                   written, sh, pr, first_run>>

\* One iteration of process_dir's loop: the entry is read and process_dir is
\* called on it one level deeper.
ProcessDirLoop ==
    /\ status = "running" /\ stack # <<>>
    /\ Top.fn = "process_dir" /\ Top.pc = "loop" /\ Top.i <= Len(Top.items)
    /\ IF EntryFails(Nodes, fault, Top.items[Top.i])
       THEN Fail
       ELSE Call([Top EXCEPT !.i = @ + 1], DirFrame(Top.items[Top.i], Top.current_depth + 1))
    /\ UNCHANGED <<config, aggregated, visited_files, telemetry, total_files, reported,
                   written, sh, pr, first_run>>

\* process_dir returns Ok(()): after its loop, or after process_file returned.
ProcessDirReturn ==
    /\ status = "running" /\ stack # <<>>
    /\ Top.fn = "process_dir"
    /\ \/ Top.pc = "loop" /\ Top.i > Len(Top.items)
       \/ Top.pc = "tail"
    /\ stack' = Below
    /\ UNCHANGED <<config, status, aggregated, visited_files, telemetry, total_files,
                   reported, written, sh, pr, first_run>>

\* The candidate path of reference ref_path found in the file at p:
\* path.parent().unwrap_or(root_dir).join(&ref_path), then canonicalize_path.
Candidate(nodes, p, ref_path, root_dir) ==
    LET dir == IF IsSome(Parent(p)) THEN Unwrap(Parent(p)) ELSE root_dir
    IN  canonicalize_path(nodes, Join(dir, ToPath(ref_path)), root_dir)

\* visited_files.contains(path)
IsVisited(visited, p) == p \in visited

\* process_file up to its reference loop: the visited check, include_file,
\* and in dependency-aware mode the parse of the file's references.
ProcessFileEnter ==
    /\ status = "running" /\ stack # <<>>
    /\ Top.fn = "process_file" /\ Top.pc = "enter"
    /\ IF IsVisited(visited_files, Top.path)
       THEN stack' = Below /\ status' = status
       ELSE IF ExpandsReferences(Top.path, lang_filter)
       THEN IF OpenFails(Nodes, fault, Top.path)
            THEN Fail
            ELSE LET parsed == parse_references_generic(Top.path, Nodes[Canon(Top.path)].bytes)
                 IN  IF ~parsed.ok
                     THEN Fail
                     ELSE /\ stack' = Below \o <<[Top EXCEPT !.pc = "refs", !.items = parsed.refs]>>
                          /\ status' = status
       ELSE stack' = Below \o <<[Top EXCEPT !.pc = "append"]>> /\ status' = status
    /\ UNCHANGED <<config, aggregated, visited_files, telemetry, total_files, reported,
                   written, sh, pr, first_run>>

\* A faulty variant of NoExpansion: a candidate that does not exist is an error.
ErrorOnMissing ==
    /\ status' = "unwinding"
    /\ stack' = stack

\* The candidate does not exist: nothing is done for the reference, the loop
\* goes on to the next one.
NoExpansion ==
    /\ stack' = Below \o <<[Top EXCEPT !.i = @ + 1]>>
    /\ status' = status

\* One iteration of the reference loop: process_file is called on the
\* candidate when it exists.
ProcessFileRef ==
    /\ status = "running" /\ stack # <<>>
    /\ Top.fn = "process_file" /\ Top.pc = "refs" /\ Top.i <= Len(Top.items)
    /\ LET candidate == Candidate(Nodes, Top.path, Top.items[Top.i], target_dir)
       IN  IF Exists(Nodes, candidate)
           THEN Call([Top EXCEPT !.i = @ + 1], FileFrame(candidate))
           ELSE NoExpansion
    /\ UNCHANGED <<config, aggregated, visited_files, telemetry, total_files, reported,
                   written, sh, pr, first_run>>

\* The counters after a file with the given raw bytes and token count.
Counted(t, bytes, tokens, appended) ==
    [files_processed |-> t.files_processed + (IF appended THEN 1 ELSE 0),
     bytes_read |-> t.bytes_read + ByteLength(bytes),
     tokens_aggregated |-> t.tokens_aggregated + tokens]

\* Progress update every 10 files or at end.
Reports(files_processed, total) ==
    files_processed % ReportEvery = 0 \/ files_processed = total

\* aggregated.push_str(&contents); aggregated.push('\n')
PushFile(agg, p, text) == Append(agg, [path |-> p, text |-> text \o <<"\n">>])

\* A faulty variant of MarkVisited: the insert is left out.
ForgetVisited(visited, p) == visited

\* visited_files.insert(path.to_path_buf())
MarkVisited(visited, p) == visited \cup {p}

\* The rest of process_file after the reference loop: if include_file, read,
\* shape, append, mark visited, count, report; then return.
ProcessFileAppend ==
    /\ status = "running" /\ stack # <<>>
    /\ Top.fn = "process_file"
    /\ \/ Top.pc = "refs" /\ Top.i > Len(Top.items)
       \/ Top.pc = "append"
    /\ IF ~IncludeFile(Top.path, lang_filter)
       THEN /\ stack' = Below
            /\ UNCHANGED <<status, aggregated, visited_files, telemetry, reported>>
       ELSE IF OpenFails(Nodes, fault, Top.path)
       THEN /\ Fail
            /\ UNCHANGED <<aggregated, visited_files, telemetry, reported>>
       ELSE LET bytes == Nodes[Canon(Top.path)].bytes
                shaped == Shape(Decode(bytes), token_limit, size_limit)
            IN  IF shaped.panics
                THEN /\ status' = "panic"
                     /\ telemetry' = Counted(telemetry, bytes, shaped.tokens, FALSE)
                     /\ UNCHANGED <<stack, aggregated, visited_files, reported>>
                ELSE /\ aggregated' = PushFile(aggregated, Top.path, shaped.text)
                     /\ visited_files' = MarkVisited(visited_files, Top.path)
                     /\ telemetry' = Counted(telemetry, bytes, shaped.tokens, TRUE)
                     /\ reported' = IF Reports(telemetry'.files_processed, total_files)
                                    THEN Append(reported, telemetry'.files_processed)
                                    ELSE reported
                     /\ stack' = Below
                     /\ status' = status
    /\ UNCHANGED <<config, total_files, written, sh, pr, first_run>>

\* An error on its way up: the frame on top returns it to its caller; main
\* returns it when no frame is left.
PropagateError ==
    /\ status = "unwinding" /\ stack # <<>>
    /\ stack' = Below
    /\ status' = IF Len(stack) = 1 THEN "failed" ELSE status
    /\ UNCHANGED <<config, aggregated, visited_files, telemetry, total_files, reported,
                   written, sh, pr, first_run>>

\* The aggregate as one text.
RECURSIVE TextOf(_)
TextOf(agg) == IF agg = <<>> THEN <<>> ELSE Head(agg).text \o TextOf(Tail(agg))

\* main after process_dir returned Ok: the aggregate goes to the --out file
\* (writeln!, with a newline after it) or to the clipboard.
MainFinish ==
    /\ status = "running" /\ stack = <<>>
    /\ \E sink \in {"file", "clipboard"} :
         written' = Some([sink |-> sink,
                          text |-> IF sink = "file" THEN TextOf(aggregated) \o <<"\n">>
                                   ELSE TextOf(aggregated)])
    /\ status' = "done"
    /\ UNCHANGED <<config, stack, aggregated, visited_files, telemetry, total_files,
                   reported, sh, pr, first_run>>

Next ==
    \/ MainStart
    \/ ProcessDirEnter
    \/ ProcessDirLoop
    \/ ProcessDirReturn
    \/ ProcessFileEnter
    \/ ProcessFileRef
    \/ ProcessFileAppend
    \/ PropagateError
    \/ MainFinish

Spec == Init /\ [][Next]_vars

\* ------------------------------------------------------ the program run twice

\* The run is over: main returned, or the process was aborted.
Ended == status \in {"done", "failed", "panic", "overflow"}

\* What a run leaves behind.
Outcome ==
    [status |-> status, text |-> TextOf(aggregated), visited_files |-> visited_files,
     telemetry |-> telemetry, written |-> IsSome(written)]

\* The program is started again with the same arguments on the same tree:
\* main builds its state anew.
RunAgain ==
    /\ Ended /\ first_run = None
    /\ first_run' = Some(Outcome)
    /\ status' = "start"
    /\ stack' = <<>>
    /\ aggregated' = NewAggregated
    /\ visited_files' = NewVisitedFiles
    /\ telemetry' = NewTelemetry
    /\ total_files' = 0
    /\ reported' = <<>>
    /\ written' = None
    /\ UNCHANGED <<config, sh, pr>>

NextTwice ==
    \/ MainStart
    \/ ProcessDirEnter
    \/ ProcessDirLoop
    \/ ProcessDirReturn
    \/ ProcessFileEnter
    \/ ProcessFileRef
    \/ ProcessFileAppend
    \/ PropagateError
    \/ MainFinish
    \/ RunAgain

SpecTwice == Init /\ [][NextTwice]_vars

\* ------------------------------------------------ the shaping specification

\* The characters of the file texts the shaping is applied to: a letter, two
\* kinds of whitespace, a two-byte character and an invalid byte.
ShapeAlphabet == {"a", " ", "\n", EAcute, BadByte}

ShapeTexts == UNION {[1..n -> ShapeAlphabet] : n \in 0..MaxLen}

LimitChoices == {None} \cup {Some(n) : n \in 0..MaxLimit}

NoResult == [panics |-> FALSE, text |-> <<>>, tokens |-> 0]

\* A file's bytes and the limits, before the shaping step of process_file.
InitShape ==
    /\ sh \in [phase : {"in"}, bytes : ShapeTexts, token_limit : LimitChoices,
               size_limit : LimitChoices, contents : {<<>>}, result : {NoResult}]
    /\ tree = "chain"
    /\ fault = None
    /\ lang_filter = None
    /\ token_limit = sh.token_limit
    /\ size_limit = sh.size_limit
    /\ depth_limit = None
    /\ target_dir = CanonRoot
    /\ status = "shape"
    /\ stack = <<>>
    /\ aggregated = <<>>
    /\ visited_files = {}
    /\ telemetry = [files_processed |-> 0, bytes_read |-> 0, tokens_aggregated |-> 0]
    /\ total_files = 0
    /\ reported = <<>>
    /\ written = None
    /\ pr = NoParse
    /\ first_run = None

\* The shaping step of process_file on the bytes read: lossy decoding, token
\* limit, size limit.
ApplyShape ==
    /\ status = "shape" /\ sh.phase = "in"
    /\ sh' = [sh EXCEPT !.phase = "out",
                        !.contents = Decode(sh.bytes),
                        !.result = Shape(Decode(sh.bytes), token_limit, size_limit)]
    /\ UNCHANGED <<config, status, stack, aggregated, visited_files, telemetry,
                   total_files, reported, written, pr, first_run>>

NextShape == ApplyShape

SpecShape == InitShape /\ [][NextShape]_vars

\* -------------------------------------------------- the parse specification

\* The characters of an included name, and the names of up to MaxName of them.
NameAlphabet == {"n", "h", ".", "/"}

IncludeNames == UNION {[1..n -> NameAlphabet] : n \in 1..MaxName}

\* The delimiters of the two forms of an include line.
OpenOf(form) == IF form = "quoted" THEN "\"" ELSE "<"
CloseOf(form) == IF form = "quoted" THEN "\"" ELSE ">"

\* The text of a file whose first line is an include of name in the given
\* form: lead and gap are the optional whitespace, rest is what follows.
IncludeText(inc) ==
    inc.lead \o KwInclude \o inc.gap \o <<OpenOf(inc.form)>> \o inc.name
    \o <<CloseOf(inc.form)>> \o inc.rest

\* A file of some extension that starts with an include line, before
\* parse_references_generic is called on it.
InitParse ==
    /\ pr \in [phase : {"in"}, path : {<<P, k_c>>, <<P, a_py>>, <<P, m_noext>>},
               form : {"quoted", "angle"}, lead : {<<>>, <<" ">>}, gap : {<<>>, <<" ">>},
               name : IncludeNames, rest : {<<>>, <<"\n", "v">>},
               result : {[ok |-> TRUE, refs |-> <<>>]}]
    /\ tree = "include"
    /\ fault = None
    /\ lang_filter = None
    /\ token_limit = None
    /\ size_limit = None
    /\ depth_limit = None
    /\ target_dir = CanonRoot
    /\ status = "parse"
    /\ stack = <<>>
    /\ aggregated = <<>>
    /\ visited_files = {}
    /\ telemetry = [files_processed |-> 0, bytes_read |-> 0, tokens_aggregated |-> 0]
    /\ total_files = 0
    /\ reported = <<>>
    /\ written = None
    /\ sh = NoShape
    /\ first_run = None

\* parse_references_generic on the file.
ApplyParse ==
    /\ status = "parse" /\ pr.phase = "in"
    /\ pr' = [pr EXCEPT !.phase = "out",
                        !.result = parse_references_generic(pr.path, IncludeText(pr))]
    /\ UNCHANGED <<config, status, stack, aggregated, visited_files, telemetry,
                   total_files, reported, written, sh, first_run>>

NextParse == ApplyParse

SpecParse == InitParse /\ [][NextParse]_vars

\* ------------------------------------------------------------------ claims

DependencyAware == IsSome(lang_filter) /\ Unwrap(lang_filter).dep

\* The file on disk a path of the run names.
FileAt(p) == Canonicalize(Nodes, p)

\* How many times the content of the file f (a canonical path) was appended.
TimesAppended(f) == Cardinality({k \in 1..Len(aggregated) : FileAt(aggregated[k].path) = Some(f)})

\* The frames of the stack that are calls of process_file.
FileCalls == {k \in 1..Len(stack) : stack[k].fn = "process_file"}

\* C1. Cycle safety: a dependency-aware run on a tree whose files reference
\* each other in a cycle (a.py and b.py importing each other, a.py importing
\* itself) never exhausts the stack, and when it ends every .py file of the
\* tree is in the aggregate exactly once.
C1_CycleSafety ==
    (DependencyAware /\ tree \in {"cycle", "self"}) =>
        /\ status # "overflow"
        /\ (status = "done" /\ depth_limit = None /\ Unwrap(lang_filter).ext = py) =>
              \A f \in FilesOf(tree) : TimesAppended(f) = 1

\* C2. At most once: whatever the spelling of the root directory argument,
\* the content of no file on disk is appended to the aggregate twice.
C2_AtMostOnce == \A f \in FilesOf(tree) : TimesAppended(f) <= 1

\* The files that are direct children of the root directory.
RootFiles == {f \in FilesOf(tree) : Len(f) = Len(CanonRoot) + 1 /\ IsPrefix(CanonRoot, f)}

\* C3. Depth limit 0: a run with -dl 0 that ends has appended every direct
\* child file of the root that passes the filter, and no file of a
\* subdirectory is appended by the directory walk.
C3_DepthZero ==
    (depth_limit = Some(0) /\ status = "done") =>
        /\ \A f \in RootFiles : IncludeFile(f, lang_filter) => TimesAppended(f) >= 1
        /\ ~DependencyAware =>
             \A k \in 1..Len(aggregated) : Unwrap(FileAt(aggregated[k].path)) \in RootFiles

\* The files a qualifying file f (a canonical path) references that exist and
\* qualify: the files process_file is called on from f's reference loop and
\* that it appends.
DirectDeps(f) ==
    LET refs == parse_references_generic(f, Nodes[f].bytes).refs
        cands == {Candidate(Nodes, f, refs[i], CanonRoot) : i \in 1..Len(refs)}
    IN  {Unwrap(FileAt(c)) : c \in {x \in cands : Exists(Nodes, x) /\ IncludeFile(x, lang_filter)}}

RECURSIVE DepsWithin(_, _)
\* The files reached from the set fs by at most n references.
DepsWithin(fs, n) ==
    IF n = 0 THEN fs
    ELSE DepsWithin(fs \cup UNION {DirectDeps(f) : f \in fs}, n - 1)

\* The transitive dependencies of f.
TransitiveDeps(f) == DepsWithin(DirectDeps(f), Cardinality(FilesOf(tree)))

\* C4. Dependency-first ordering: in dependency-aware mode, every file F in
\* the aggregate is preceded there by the content of every existing
\* qualifying file it references, directly or through other files.
C4_DependencyFirst ==
    DependencyAware =>
        \A k \in 1..Len(aggregated) :
            \A d \in TransitiveDeps(Unwrap(FileAt(aggregated[k].path))) :
                \E j \in 1..(k - 1) : FileAt(aggregated[j].path) = Some(d)

\* A finished dependency-aware run appended a file after a dependency of a
\* dependency of it.
C4_Witness ==
    /\ DependencyAware /\ status = "done"
    /\ \E k \in 1..Len(aggregated) :
         LET f == Unwrap(FileAt(aggregated[k].path))
         IN  TransitiveDeps(f) # DirectDeps(f)

\* C5. Filter exclusion: with an extension filter set, only files with that
\* extension are in the aggregate, whether the walk or a reference reached
\* them, and the reference loop only ever runs in a file with that extension.
C5_FilterExclusion ==
    IsSome(lang_filter) =>
        /\ \A k \in 1..Len(aggregated) :
             Extension(aggregated[k].path) = Some(Unwrap(lang_filter).ext)
        /\ \A k \in FileCalls :
             stack[k].pc = "refs" => Extension(stack[k].path) = Some(Unwrap(lang_filter).ext)

\* process_file, called from the reference loop of a qualifying file after
\* other files were appended, is about to return from a file with another
\* extension without appending it.
C5_Witness ==
    /\ DependencyAware /\ status = "running" /\ Len(stack) >= 2
    /\ Top.fn = "process_file" /\ Top.pc = "append"
    /\ Extension(Top.path) # Some(Unwrap(lang_filter).ext)
    /\ stack[Len(stack) - 1].fn = "process_file"
    /\ aggregated # <<>>

\* The paths appended so far.
AppendedPaths == {aggregated[k].path : k \in 1..Len(aggregated)}

\* C6. Visited/telemetry agreement: visited_files is exactly the set of
\* appended paths, no path was appended (inserted) twice, the set never
\* shrinks, and its size is telemetry.files_processed.
C6_VisitedAgreement ==
    /\ [](/\ visited_files = AppendedPaths
          /\ \A j, k \in 1..Len(aggregated) : aggregated[j].path = aggregated[k].path => j = k
          /\ Cardinality(visited_files) = telemetry.files_processed
          /\ Len(aggregated) = telemetry.files_processed)
    /\ [][visited_files \subseteq visited_files']_vars

\* A finished run that appended several files, one of them reached by a
\* reference.
C6_Witness ==
    /\ status = "done" /\ DependencyAware
    /\ telemetry.files_processed >= 3

\* The operation on top of the stack is about to perform the I/O that fails:
\* read_dir of the directory, the read of the next entry, or the open of the
\* file (for its references or for its content).
HitsFault ==
    /\ status = "running" /\ stack # <<>>
    /\ \/ /\ Top.fn = "process_dir" /\ Top.pc = "enter"
          /\ ~(IsSome(depth_limit) /\ Top.current_depth > Unwrap(depth_limit))
          /\ IsDir(Nodes, Top.path) /\ ReadDirFails(Nodes, fault, Top.path)
       \/ /\ Top.fn = "process_dir" /\ Top.pc = "loop" /\ Top.i <= Len(Top.items)
          /\ EntryFails(Nodes, fault, Top.items[Top.i])
       \/ /\ Top.fn = "process_file" /\ Top.pc = "enter"
          /\ Top.path \notin visited_files
          /\ IncludeFile(Top.path, lang_filter) /\ DependencyAware
          /\ OpenFails(Nodes, fault, Top.path)
       \/ /\ Top.fn = "process_file" /\ Top.pc \in {"refs", "append"}
          /\ Top.pc = "refs" => Top.i > Len(Top.items)
          /\ IncludeFile(Top.path, lang_filter)
          /\ OpenFails(Nodes, fault, Top.path)

\* C10. Fail-fast: an I/O failure of the traversal becomes an error at once,
\* the error is returned through every level without another append, the run
\* ends failed, and a failed run has written nothing to its sink.
C10_FailFast ==
    /\ [](status \in {"unwinding", "failed"} => written = None)
    /\ [](status = "failed" => stack = <<>>)
    /\ [](IsSome(written) => status = "done")
    /\ [][HitsFault => status' = "unwinding"]_vars
    /\ [][status = "unwinding" =>
            /\ status' \in {"unwinding", "failed"}
            /\ Len(stack') = Len(stack) - 1
            /\ aggregated' = aggregated /\ visited_files' = visited_files
            /\ written' = None]_vars
    /\ [][status = "failed" => UNCHANGED vars]_vars

\* A run failed after it had appended a file: the partial aggregate is
\* written nowhere.
C10_Witness == status = "failed" /\ aggregated # <<>> /\ written = None

\* The positions of text where a whitespace-delimited token starts.
WordStarts(text) ==
    {i \in 1..Len(text) : ~IsWs(text[i]) /\ (i = 1 \/ IsWs(text[i - 1]))}

\* The n-th token of text, read off its positions.
WordAt(text, n) ==
    LET st == CHOOSE i \in WordStarts(text) :
                  Cardinality({j \in WordStarts(text) : j < i}) = n - 1
        en == CHOOSE j \in st..Len(text) :
                  /\ \A x \in st..j : ~IsWs(text[x])
                  /\ (j = Len(text) \/ IsWs(text[j + 1]))
    IN  SubSeq(text, st, en)

RECURSIVE FirstWords(_, _)
\* The first n tokens of text, one space between neighbours.
FirstWords(text, n) ==
    IF n = 0 THEN <<>>
    ELSE IF n = 1 THEN WordAt(text, 1)
    ELSE FirstWords(text, n - 1) \o <<" ">> \o WordAt(text, n)

Min(a, b) == IF a <= b THEN a ELSE b

\* The text after the token limit, as the claim states it.
TokenLimited(text, tl) ==
    IF IsSome(tl) THEN FirstWords(text, Min(Unwrap(tl), Cardinality(WordStarts(text))))
    ELSE text

\* C7. Token limit: with a token limit N the text appended is the first
\* min(N, k) tokens joined by single spaces, without one it is the decoded
\* text untouched (in both cases before any size limit cuts it), and the
\* token counter grows by k, the count before truncation.
C7_TokenLimit ==
    sh.phase = "out" =>
        /\ sh.result.tokens = Cardinality(WordStarts(sh.contents))
        /\ (~sh.result.panics
            /\ (IsSome(size_limit) =>
                  ByteLength(TokenLimited(sh.contents, token_limit)) <= Unwrap(size_limit)))
           => sh.result.text = TokenLimited(sh.contents, token_limit)

\* A text of more tokens than the limit, the limit keeping two of them, the
\* newline between them replaced by a space.
C7_Witness ==
    /\ sh.phase = "out" /\ IsSome(token_limit) /\ size_limit = None
    /\ Unwrap(token_limit) >= 2
    /\ sh.result.tokens > Unwrap(token_limit)
    /\ sh.contents[1] = "a" /\ sh.contents[2] = "\n"
    /\ sh.result.text = <<"a", " ", "a">>

\* C8. Size limit: with a size limit S the text appended is the prefix of the
\* token-shaped text that is min(S, its length) bytes long (so a text of at
\* most S bytes is appended unchanged): the size limit acts after the token
\* limit.
C8_SizeLimit ==
    (sh.phase = "out" /\ IsSome(size_limit) /\ ~sh.result.panics) =>
        LET t == TokenLimited(sh.contents, token_limit)
        IN  /\ IsPrefix(sh.result.text, t)
            /\ ByteLength(sh.result.text) = Min(Unwrap(size_limit), ByteLength(t))

\* Both limits cut: the token limit dropped a token and the size limit cut
\* the rest in the middle.
C8_Witness ==
    /\ sh.phase = "out" /\ IsSome(size_limit) /\ IsSome(token_limit) /\ ~sh.result.panics
    /\ sh.result.tokens > Unwrap(token_limit)
    /\ sh.result.text # <<>>
    /\ Len(sh.result.text) < Len(TokenLimited(sh.contents, token_limit))

\* C9. Shaping never fails: for every text and every pair of limits the
\* shaping step completes, with a text no longer than the decoded input.
C9_ShapingNeverFails ==
    sh.phase = "out" =>
        /\ ~sh.result.panics
        /\ ByteLength(sh.result.text) <= ByteLength(sh.contents)

\* The failure of the run is one of the directory traversal on one entry below
\* the root: read_dir of a subdirectory fails, or the read of an entry does.
TraversalFault ==
    /\ IsSome(fault)
    /\ Unwrap(fault).at # CanonRoot
    /\ \/ Unwrap(fault).kind = "entry"
       \/ Unwrap(fault).kind = "open" /\ Nodes[Unwrap(fault).at].kind = "dir"

\* C11. Per-entry skip: a run whose only failure is a directory-traversal
\* error on one entry is not aborted: no error is on its way up to main and
\* the run does not end failed.
C11_PerEntrySkip == TraversalFault => status \notin {"unwinding", "failed"}

\* The reference loop of the file on top is at a reference whose candidate
\* path does not exist.
AtUnresolvedReference ==
    /\ status = "running" /\ stack # <<>>
    /\ Top.fn = "process_file" /\ Top.pc = "refs" /\ Top.i <= Len(Top.items)
    /\ ~Exists(Nodes, Candidate(Nodes, Top.path, Top.items[Top.i], target_dir))

\* C12. Unresolved references are silent no-ops: the step of the reference
\* loop at a reference whose candidate does not exist calls nothing, raises no
\* error, only moves on to the next reference, and leaves the aggregate,
\* visited_files, the telemetry and the progress lines as they were.
C12_UnresolvedNoOp ==
    [][AtUnresolvedReference =>
         /\ status' = "running"
         /\ Len(stack') = Len(stack)
         /\ SubSeq(stack', 1, Len(stack) - 1) = Below
         /\ stack'[Len(stack)] = [Top EXCEPT !.i = @ + 1]
         /\ aggregated' = aggregated
         /\ visited_files' = visited_files
         /\ telemetry' = telemetry
         /\ reported' = reported]_vars

\* The reference loop has just passed a reference whose candidate does not
\* exist and stands at the next reference of the file.
C12_Witness ==
    /\ status = "running" /\ stack # <<>>
    /\ Top.fn = "process_file" /\ Top.pc = "refs"
    /\ Top.i > 1 /\ Top.i <= Len(Top.items)
    /\ ~Exists(Nodes, Candidate(Nodes, Top.path, Top.items[Top.i - 1], target_dir))

ReportedCounts == {reported[k] : k \in 1..Len(reported)}

\* C14. Progress reporting: a progress line was printed at every 10th
\* appended file, and a run that ended after it appended files printed its
\* last progress line at the last of them.
C14_ProgressReporting ==
    /\ \A n \in 1..telemetry.files_processed : n % ReportEvery = 0 => n \in ReportedCounts
    /\ (status = "done" /\ telemetry.files_processed > 0) =>
          /\ reported # <<>>
          /\ reported[Len(reported)] = telemetry.files_processed

\* How deep below the root directory the file a path names lies: 1 for an
\* entry of the root, the current_depth process_dir is called on it with.
DepthOf(p) == Len(Unwrap(FileAt(p))) - Len(CanonRoot)

\* C15. Depth limit under dependency expansion: with a depth limit set, every
\* file in the aggregate lies within the limit, also when references are
\* followed.
C15_DepthLimit ==
    IsSome(depth_limit) =>
        \A k \in 1..Len(aggregated) : DepthOf(aggregated[k].path) <= Unwrap(depth_limit)

\* C16. Include extraction: for a file whose first line is, after optional
\* whitespace, #include "NAME" or #include <NAME>, the references
\* parse_references_generic returns hold NAME, post-processed for the file.
C16_IncludeExtraction ==
    pr.phase = "out" =>
        /\ pr.result.ok
        /\ \E k \in 1..Len(pr.result.refs) : pr.result.refs[k] = PostProcess(pr.name, pr.path)

\* C17. Canonical visited keys: every path in visited_files is absolute and
\* is its own canonical form, and no two paths of the set name the same file.
C17_CanonicalKeys ==
    /\ \A p \in visited_files : IsAbsolute(p) /\ Canonicalize(Nodes, p) = Some(p)
    /\ \A p, q \in visited_files : FileAt(p) = FileAt(q) => p = q

\* The call on top of the stack is process_file on a file that does not
\* qualify under the filter.
OnSkippedFile ==
    /\ status = "running" /\ stack # <<>>
    /\ Top.fn = "process_file" /\ ~IncludeFile(Top.path, lang_filter)

\* C18. Skipped file leaves no trace: a call of process_file on a file that
\* does not qualify never enters the reference loop, and each of its steps
\* leaves the aggregate, visited_files, the telemetry and the progress lines
\* as they were, calls nothing and raises no error; no such file is ever in
\* visited_files, so a later call on it tests the filter again.
C18_SkippedNoTrace ==
    /\ [](OnSkippedFile => Top.pc # "refs")
    /\ [](\A p \in visited_files : IncludeFile(p, lang_filter))
    /\ [][OnSkippedFile =>
            /\ status' = "running"
            /\ Len(stack') <= Len(stack)
            /\ aggregated' = aggregated
            /\ visited_files' = visited_files
            /\ telemetry' = telemetry
            /\ reported' = reported]_vars

\* process_file has just returned to process_dir from a file that does not
\* qualify, in a run that had appended files before.
C18_Witness ==
    /\ status = "running" /\ stack # <<>>
    /\ Top.fn = "process_dir" /\ Top.pc = "tail"
    /\ ~IncludeFile(Top.path, lang_filter)
    /\ aggregated # <<>>

\* The text process_file appends for the file f (a canonical path).
ShapedContent(f) ==
    Shape(Decode(Nodes[f].bytes), token_limit, size_limit).text \o <<"\n">>

\* C19. Completeness of the walk: when a run has ended without error, every
\* file of the tree that lies within the depth limit and qualifies under the
\* filter is in the aggregate with its shaped content.
C19_Completeness ==
    status = "done" =>
        \A f \in FilesOf(tree) :
            ((IsSome(depth_limit) => DepthOf(f) <= Unwrap(depth_limit))
             /\ IncludeFile(f, lang_filter))
            => \E k \in 1..Len(aggregated) :
                  /\ FileAt(aggregated[k].path) = Some(f)
                  /\ aggregated[k].text = ShapedContent(f)

\* A run with a depth limit has ended; a file at the limit was appended as a
\* dependency of a file appended after it, and only once.
C19_Witness ==
    /\ status = "done" /\ DependencyAware /\ IsSome(depth_limit)
    /\ \E j, k \in 1..Len(aggregated) :
         /\ k < j
         /\ DepthOf(aggregated[k].path) = Unwrap(depth_limit)
         /\ Unwrap(FileAt(aggregated[k].path)) \in DirectDeps(Unwrap(FileAt(aggregated[j].path)))
         /\ TimesAppended(Unwrap(FileAt(aggregated[k].path))) = 1

\* C20. Pre-pass agreement: a run without dependency following on a tree
\* that does not fail has, when it ends, appended as many files as
\* count_files counted, whatever the depth limit.
C20_PrePassAgreement ==
    (status = "done" /\ ~DependencyAware /\ fault = None) =>
        telemetry.files_processed = total_files

====
